---- MODULE Spec2Model ----
(***************************************************************************)
(* Model of the classtime front-end controllers                            *)
(*   src/angular_flask/static/scripts/controllers/fastCourseListCtrl.js    *)
(*   src/angular_flask/static/scripts/services/courseFactory.js            *)
(*                                                                         *)
(* JavaScript runs every callback to completion on one thread, so each     *)
(* handler (an $http success/error callback, a $watch listener, a $timeout *)
(* callback, a $scope method) is one atomic action.  The network and the   *)
(* user are the environment: a response is delivered in any order, as a    *)
(* success or as a failure; the user changes searchBox and clicks.         *)
(***************************************************************************)
EXTENDS Integers, Sequences, FiniteSets, TLC

(***************************************************************************)
(* Bounds of the model.                                                    *)
(***************************************************************************)
\* largest total_pages the server announces
MaxPages == 3

(***************************************************************************)
(* fastCourseListCtrl: state                                               *)
(***************************************************************************)
VARIABLES
    srvPages,       \* the server's catalog: srvPages[p] is the objects array of page p
    page,           \* var page (line 14)
    total_pages,    \* var total_pages (line 15); 0 stands for undefined
    pageListing,    \* var pageListing (line 11); <<>> stands for undefined
    subjectBin,     \* var subjectBin, aliased by $scope.subjectBin (lines 8, 62)
    firstReq,       \* the request of line 18: "inflight", "ok" or "failed"
    pageReq,        \* pageReq[p]: the request of line 26 for page p:
                    \*   "none", "inflight", "ok" or "failed"
    gets,           \* gets[p]: number of HTTP GETs issued for page p so far
    delivered,      \* the responses to the requests of line 26 handled so far, in
                    \*   order: <<p, "ok">> (line 27 ran) or <<p, "failed">> (line 49)
    alerts          \* number of $window.alert calls so far

fastVars == <<srvPages, page, total_pages, pageListing, subjectBin, firstReq,
              pageReq, gets, delivered>>

(***************************************************************************)
(* accordionCtrl: state                                                    *)
(***************************************************************************)
VARIABLES
    accPage,          \* the server's answer for page 1 of the structured catalog
    accSubjectBin,    \* $scope.subjectBin (line 114): a sequence of faculty objects
    accReq,           \* the request of line 155: "inflight", "ok" or "failed"
    accThrown,        \* TRUE once the success callback (line 156) ended in a TypeError
    accGets,          \* accGets[p]: number of HTTP GETs accordionCtrl issued for page p
    description,      \* $scope.description (line 261): course id -> description text
    detailPending,    \* detailPending[id]: detail requests for id still in flight
    detailLog,        \* what loadMore did so far, in order: <<"call", id>> (loadMore
                      \*   entered), <<"get", id>> (request issued), <<"ok", id>>,
                      \*   <<"fail", id>> (response handled)
    addedCourses,     \* $rootScope.addedCourses (line 308)
    shoppingCartSize, \* $rootScope.shoppingCartSize (line 309)
    addLog            \* the arguments of the addToSchedule calls since construction

accLoadVars == <<accPage, accSubjectBin, accReq, accThrown, accGets>>
detailVars  == <<description, detailPending, detailLog>>
schedVars   == <<addedCourses, shoppingCartSize, addLog>>

(***************************************************************************)
(* The two searchBox watchers and the $timeout service: state              *)
(***************************************************************************)
VARIABLES
    now,                 \* the clock, in ms since the controllers were constructed
    timers,              \* the pending $timeout callbacks
    nextTimer,           \* the identity the next $timeout promise gets
    fSearchBox,          \* fastCourseListCtrl: $scope.searchBox
    tempFilterText,      \* fastCourseListCtrl: var tempFilterText (line 70)
    fFilterTextTimeout,  \* fastCourseListCtrl: var filterTextTimeout (line 71); 0: undefined
    fFilterText,         \* fastCourseListCtrl: $scope.filterText (line 69)
    fWatchLog,           \* fastCourseListCtrl: the listener's calls so far, <<time, val>>
    fPubLog,             \* fastCourseListCtrl: the writes of filterText by line 78
    aSearchBox,          \* accordionCtrl: $scope.searchBox
    aFilterTextTimeout,  \* accordionCtrl: var filterTextTimeout (line 289); 0: undefined
    aFilterText,         \* accordionCtrl: $scope.filterText
    aWatchLog,           \* accordionCtrl: the listener's calls so far, <<time, val>>
    aPubLog              \* accordionCtrl: the writes of filterText by line 299

fastDebVars == <<fSearchBox, tempFilterText, fFilterTextTimeout, fFilterText,
                 fWatchLog, fPubLog>>
accDebVars  == <<aSearchBox, aFilterTextTimeout, aFilterText, aWatchLog, aPubLog>>
debVars     == <<now, timers, nextTimer, fastDebVars, accDebVars>>

(***************************************************************************)
(* compareByCourseNumber (lines 225-238): the two courses compared and     *)
(* what came of it                                                         *)
(***************************************************************************)
VARIABLES
    cmpA,        \* a.asString, as its characters
    cmpB,        \* b.asString, as its characters
    cmpResult,   \* <<>> before the call, then <<compareByCourseNumber(a, b)>>
    cmpSorted    \* <<>> before the call, then [a, b].sort(compareByCourseNumber)

sortVars == <<cmpA, cmpB, cmpResult, cmpSorted>>

vars == <<fastVars, alerts, accLoadVars, detailVars, schedVars, debVars, sortVars>>

(***************************************************************************)
(* Course records of the catalog (courses-min objects).  Two courses share *)
(* faculty and subject, one shares only the faculty, one shares neither,   *)
(* so that every branch of the merge (lines 33-46) is taken.               *)
(***************************************************************************)
Courses ==
    { [id |-> 1, faculty |-> "Science",     subject |-> "CMPUT", asString |-> "CMPUT 101"],
      [id |-> 2, faculty |-> "Science",     subject |-> "CMPUT", asString |-> "CMPUT 201"],
      [id |-> 3, faculty |-> "Science",     subject |-> "MATH",  asString |-> "MATH 100"],
      [id |-> 4, faculty |-> "Engineering", subject |-> "ECE",   asString |-> "ECE 210"] }

Faculties == {c.faculty : c \in Courses}
Subjects  == {c.subject : c \in Courses}

\* every order in which the server may list the course records
CourseOrders ==
    { s \in [1..Cardinality(Courses) -> Courses] : \A i, j \in DOMAIN s : i # j => s[i] # s[j] }

\* the records of `order` that the server puts on page p, in that order
OnPage(order, pageOf, p) ==
    LET here(c) == pageOf[c] = p IN SelectSeq(order, here)

\* the elements of a sequence
Range(s) == {s[i] : i \in DOMAIN s}

\* number of occurrences of x in sequence s
Count(s, x) == Cardinality({i \in DOMAIN s : s[i] = x})

\* a JavaScript object used as a map: a function whose DOMAIN is its own keys
EmptyObject == <<>>
hasOwnProperty(obj, k) == k \in DOMAIN obj
SetProperty(obj, k, v) ==
    [x \in (DOMAIN obj) \cup {k} |-> IF x = k THEN v ELSE obj[x]]

\* Array.prototype.push: append at the end
push(arr, x) == Append(arr, x)

(***************************************************************************)
(* The body of the forEach callback, lines 32-47: one course merged into   *)
(* the bin.                                                                *)
(***************************************************************************)
\* a plausible slip: the existing-subject branch assigns instead of pushing
MergeCourseOverwrite(bin, course) ==
    IF hasOwnProperty(bin, course.faculty)
    THEN SetProperty(bin, course.faculty,
             SetProperty(bin[course.faculty], course.subject, <<course.asString>>))
    ELSE SetProperty(bin, course.faculty,
             SetProperty(EmptyObject, course.subject, <<course.asString>>))

\* a plausible slip: the display string is put at the front (unshift) of an
\* existing courses array
MergeCourseUnshift(bin, course) ==
    IF hasOwnProperty(bin, course.faculty)
    THEN IF hasOwnProperty(bin[course.faculty], course.subject)
         THEN SetProperty(bin, course.faculty,
                  SetProperty(bin[course.faculty], course.subject,
                      <<course.asString>> \o bin[course.faculty][course.subject]))
         ELSE SetProperty(bin, course.faculty,
                  SetProperty(bin[course.faculty], course.subject, <<course.asString>>))
    ELSE SetProperty(bin, course.faculty,
             SetProperty(EmptyObject, course.subject, <<course.asString>>))

MergeCourse(bin, course) ==
    IF hasOwnProperty(bin, course.faculty)
    THEN IF hasOwnProperty(bin[course.faculty], course.subject)
         THEN SetProperty(bin, course.faculty,
                  SetProperty(bin[course.faculty], course.subject,
                      push(bin[course.faculty][course.subject], course.asString)))
         ELSE SetProperty(bin, course.faculty,
                  SetProperty(bin[course.faculty], course.subject, <<course.asString>>))
    ELSE SetProperty(bin, course.faculty,
             SetProperty(EmptyObject, course.subject, <<course.asString>>))

\* pageListing.objects.forEach(...), lines 32-47
RECURSIVE MergePage(_, _)
MergePage(bin, objects) ==
    IF objects = <<>> THEN bin
    ELSE MergePage(MergeCourse(bin, Head(objects)), Tail(objects))

\* the JSON body the server sends for page p
PageBody(p) == [objects |-> srvPages[p], total_pages |-> Len(srvPages)]

(***************************************************************************)
(* fastCourseListCtrl: construction (lines 7-62).  The request of line 18  *)
(* is already issued.  The catalog is any split of the course records over *)
(* pages 1..total_pages, each page in any order.                           *)
(***************************************************************************)
Catalogs ==
    UNION { { [p \in 1..n |-> OnPage(order, pageOf, p)] :
                pageOf \in [Courses -> 1..n], order \in CourseOrders } : n \in 1..MaxPages }

\* a catalog of one empty page
EmptyCatalog == << <<>> >>

FastInit(catalogs) ==
    /\ srvPages \in catalogs
    /\ page = 1
    /\ total_pages = 0
    /\ pageListing = <<>>
    /\ subjectBin = EmptyObject
    /\ firstReq = "inflight"
    /\ pageReq = [p \in 1..MaxPages |-> "none"]
    /\ gets = [p \in 1..MaxPages |-> IF p = 1 THEN 1 ELSE 0]
    /\ delivered = <<>>

(***************************************************************************)
(* Success callback of the first request, lines 19-55.  The while loop     *)
(* issues one request per page from page to total_pages and leaves         *)
(* page = total_pages + 1.                                                 *)
(***************************************************************************)
\* a plausible slip: the loop test is page < total_pages, so the last page is
\* never requested
FirstPageSuccessSkipLast ==
    /\ firstReq = "inflight"
    /\ firstReq' = "ok"
    /\ pageListing' = PageBody(1)
    /\ total_pages' = PageBody(1).total_pages
    /\ pageReq' = [p \in 1..MaxPages |->
                     IF p >= page /\ p < total_pages' THEN "inflight" ELSE pageReq[p]]
    /\ gets' = [p \in 1..MaxPages |->
                     IF p >= page /\ p < total_pages' THEN gets[p] + 1 ELSE gets[p]]
    /\ page' = IF page < total_pages' THEN total_pages' ELSE page
    /\ UNCHANGED <<srvPages, subjectBin, delivered, alerts>>
    /\ UNCHANGED <<accLoadVars, sortVars, detailVars, schedVars, debVars>>

FirstPageSuccess ==
    /\ firstReq = "inflight"
    /\ firstReq' = "ok"
    /\ pageListing' = PageBody(1)
    /\ total_pages' = PageBody(1).total_pages
    /\ pageReq' = [p \in 1..MaxPages |->
                     IF p >= page /\ p < total_pages' + 1 THEN "inflight" ELSE pageReq[p]]
    /\ gets' = [p \in 1..MaxPages |->
                     IF p >= page /\ p < total_pages' + 1 THEN gets[p] + 1 ELSE gets[p]]
    /\ page' = IF page < total_pages' + 1 THEN total_pages' + 1 ELSE page
    /\ UNCHANGED <<srvPages, subjectBin, delivered, alerts>>
    /\ UNCHANGED <<accLoadVars, sortVars, detailVars, schedVars, debVars>>

\* a plausible slip: after the alert the controller requests page 1 all the same
FirstPageErrorFallback ==
    /\ firstReq = "inflight"
    /\ firstReq' = "failed"
    /\ alerts' = alerts + 1
    /\ pageReq' = [pageReq EXCEPT ![1] = "inflight"]
    /\ gets' = [gets EXCEPT ![1] = @ + 1]
    /\ UNCHANGED <<srvPages, page, total_pages, pageListing, subjectBin, delivered>>
    /\ UNCHANGED <<accLoadVars, sortVars, detailVars, schedVars, debVars>>

\* Error callback of the first request, lines 56-58
FirstPageError ==
    /\ firstReq = "inflight"
    /\ firstReq' = "failed"
    /\ alerts' = alerts + 1
    /\ UNCHANGED <<srvPages, page, total_pages, pageListing, subjectBin, pageReq,
                   gets, delivered>>
    /\ UNCHANGED <<accLoadVars, sortVars, detailVars, schedVars, debVars>>

\* Success callback of the request for page p, lines 27-48
PageSuccess(p) ==
    /\ pageReq[p] = "inflight"
    /\ pageReq' = [pageReq EXCEPT ![p] = "ok"]
    /\ pageListing' = PageBody(p)
    /\ subjectBin' = MergePage(subjectBin, pageListing'.objects)
    /\ delivered' = Append(delivered, <<p, "ok">>)
    /\ UNCHANGED <<srvPages, page, total_pages, firstReq, gets, alerts>>
    /\ UNCHANGED <<accLoadVars, sortVars, detailVars, schedVars, debVars>>

\* a plausible slip: a failed page aborts the aggregation done so far
PageErrorAbort(p) ==
    /\ pageReq[p] = "inflight"
    /\ pageReq' = [pageReq EXCEPT ![p] = "failed"]
    /\ alerts' = alerts + 1
    /\ subjectBin' = EmptyObject
    /\ delivered' = Append(delivered, <<p, "failed">>)
    /\ UNCHANGED <<srvPages, page, total_pages, pageListing, firstReq, gets>>
    /\ UNCHANGED <<accLoadVars, sortVars, detailVars, schedVars, debVars>>

\* Error callback of the request for page p, lines 49-51
PageError(p) ==
    /\ pageReq[p] = "inflight"
    /\ pageReq' = [pageReq EXCEPT ![p] = "failed"]
    /\ alerts' = alerts + 1
    /\ delivered' = Append(delivered, <<p, "failed">>)
    /\ UNCHANGED <<srvPages, page, total_pages, pageListing, subjectBin, firstReq, gets>>
    /\ UNCHANGED <<accLoadVars, sortVars, detailVars, schedVars, debVars>>


FastNext ==
    \/ FirstPageSuccess
    \/ FirstPageError
    \/ \E p \in 1..MaxPages : PageSuccess(p)
    \/ \E p \in 1..MaxPages : PageError(p)

(***************************************************************************)
(* accordionCtrl: the structured catalog (lines 114-161)                   *)
(***************************************************************************)
\* most faculty groups on the page the server sends
MaxGroups == 3

\* subject objects of the structured catalog
SubjectObject(name, courses) == [subjectName |-> name, courses |-> courses]

\* the faculty groups a page may hold: subjects arrays of length 0, 1 and 2
FacultyGroups ==
    { [faculty |-> f, subjects |-> ss] :
        f \in {"Science", "Engineering"},
        ss \in { <<>>,
                 << SubjectObject("CMPUT", <<"CMPUT 101">>) >>,
                 << SubjectObject("MATH", <<"MATH 100">>),
                    SubjectObject("STAT", <<"STAT 151", "STAT 252">>) >> } }

\* every page the server may send: up to MaxGroups groups, any total_pages
AccPages ==
    UNION { { [objects |-> gs, total_pages |-> n] :
                gs \in [1..k -> FacultyGroups], n \in 1..MaxPages } : k \in 0..MaxGroups }

\* a page without groups
EmptyAccPage == [objects |-> <<>>, total_pages |-> 1]

(***************************************************************************)
(* insertIntoSubjectBin, lines 116-145.  The result is the bin and whether *)
(* the call ended by throwing.  A faculty object of the bin is a plain     *)
(* object {faculty, subjects}: it has no push method, so line 126 throws a *)
(* TypeError at the first subject of a group whose faculty is in the bin;  *)
(* with an empty subjects array line 126 is not reached, inserted becomes  *)
(* true and nothing is added.                                              *)
(***************************************************************************)
insertIntoSubjectBin(bin, SFacultyGroup) ==
    LET SfacultyName == SFacultyGroup.faculty
        matches == {i \in DOMAIN bin : bin[i].faculty = SfacultyName}
        newObj == [faculty |-> SfacultyName, subjects |-> SFacultyGroup.subjects]
    IN  IF matches # {}
        THEN [bin |-> bin, thrown |-> SFacultyGroup.subjects # <<>>]
        ELSE [bin |-> push(bin, newObj), thrown |-> FALSE]

\* parsePage, lines 147-152: the forEach ends at the first exception
RECURSIVE parsePage(_, _)
parsePage(bin, objects) ==
    IF objects = <<>> THEN [bin |-> bin, thrown |-> FALSE]
    ELSE LET r == insertIntoSubjectBin(bin, Head(objects))
         IN  IF r.thrown THEN r ELSE parsePage(r.bin, Tail(objects))

\* construction, lines 114 and 155: the request for page 1 is issued
AccLoadInit(pages) ==
    /\ accPage \in pages
    /\ accSubjectBin = <<>>
    /\ accReq = "inflight"
    /\ accThrown = FALSE
    /\ accGets = [p \in 1..MaxPages |-> IF p = 1 THEN 1 ELSE 0]

\* Success callback, lines 156-161
AccPageSuccess ==
    /\ accReq = "inflight"
    /\ accReq' = "ok"
    /\ LET r == parsePage(accSubjectBin, accPage.objects)
       IN  /\ accSubjectBin' = r.bin
           /\ accThrown' = r.thrown
    /\ UNCHANGED <<accPage, accGets, alerts, fastVars, detailVars, schedVars, debVars,
                   sortVars>>

\* The request fails: lines 155-161 register no error callback, so no code runs
AccPageFailure ==
    /\ accReq = "inflight"
    /\ accReq' = "failed"
    /\ UNCHANGED <<accPage, accSubjectBin, accThrown, accGets, alerts>>
    /\ UNCHANGED <<fastVars, detailVars, schedVars, debVars, sortVars>>

AccLoadNext ==
    \/ AccPageSuccess
    \/ AccPageFailure

(***************************************************************************)
(* accordionCtrl: course details, lines 261-275                            *)
(***************************************************************************)
\* number of course ids the user can open
NumIds == 2
\* number of loadMore calls in a run
MaxLoadMore == 3

CourseIds == 1..NumIds

\* the JSON body the detail API sends for a course id
Details(id) == [courseDescription |-> <<"description of course", id>>]

DetailInit ==
    /\ description = EmptyObject
    /\ detailPending = [id \in CourseIds |-> 0]
    /\ detailLog = <<>>

\* number of events e in the log
LogCount(log, e) == Cardinality({i \in DOMAIN log : log[i] = e})

\* a plausible slip: the cache is not consulted
loadMoreAlways(courseIdNumber) ==
    /\ Cardinality({i \in DOMAIN detailLog : detailLog[i][1] = "call"}) < MaxLoadMore
    /\ detailPending' = [detailPending EXCEPT ![courseIdNumber] = @ + 1]
    /\ detailLog' = detailLog \o << <<"call", courseIdNumber>>, <<"get", courseIdNumber>> >>
    /\ UNCHANGED <<description, alerts, fastVars, accLoadVars, sortVars, schedVars, debVars>>

\* $scope.loadMore, lines 263-275
loadMore(courseIdNumber) ==
    /\ Cardinality({i \in DOMAIN detailLog : detailLog[i][1] = "call"}) < MaxLoadMore
    /\ IF ~hasOwnProperty(description, courseIdNumber)
       THEN /\ detailPending' = [detailPending EXCEPT ![courseIdNumber] = @ + 1]
            /\ detailLog' = detailLog \o << <<"call", courseIdNumber>>,
                                            <<"get", courseIdNumber>> >>
       ELSE /\ detailPending' = detailPending
            /\ detailLog' = Append(detailLog, <<"call", courseIdNumber>>)
    /\ UNCHANGED <<description, alerts, fastVars, accLoadVars, sortVars, schedVars, debVars>>

\* a plausible slip: the description is not stored
DetailSuccessNoStore(id) ==
    /\ detailPending[id] > 0
    /\ detailPending' = [detailPending EXCEPT ![id] = @ - 1]
    /\ detailLog' = Append(detailLog, <<"ok", id>>)
    /\ UNCHANGED <<description, alerts, fastVars, accLoadVars, sortVars, schedVars, debVars>>

\* Success callback of the detail request for id, lines 267-270
DetailSuccess(id) ==
    /\ detailPending[id] > 0
    /\ detailPending' = [detailPending EXCEPT ![id] = @ - 1]
    /\ description' = SetProperty(description, id, Details(id).courseDescription)
    /\ detailLog' = Append(detailLog, <<"ok", id>>)
    /\ UNCHANGED <<alerts, fastVars, accLoadVars, sortVars, schedVars, debVars>>

\* a plausible slip: the failure is cached (as undefined), so it is never retried
DetailErrorCached(id) ==
    /\ detailPending[id] > 0
    /\ detailPending' = [detailPending EXCEPT ![id] = @ - 1]
    /\ description' = SetProperty(description, id, <<"undefined">>)
    /\ alerts' = alerts + 1
    /\ detailLog' = Append(detailLog, <<"fail", id>>)
    /\ UNCHANGED <<fastVars, accLoadVars, sortVars, schedVars, debVars>>

\* Error callback of the detail request for id, lines 271-273
DetailError(id) ==
    /\ detailPending[id] > 0
    /\ detailPending' = [detailPending EXCEPT ![id] = @ - 1]
    /\ alerts' = alerts + 1
    /\ detailLog' = Append(detailLog, <<"fail", id>>)
    /\ UNCHANGED <<description, fastVars, accLoadVars, sortVars, schedVars, debVars>>

DetailNext ==
    \/ \E id \in CourseIds : loadMore(id)
    \/ \E id \in CourseIds : DetailSuccess(id)
    \/ \E id \in CourseIds : DetailError(id)

(***************************************************************************)
(* accordionCtrl: the schedule list, lines 308-321                         *)
(***************************************************************************)
\* number of course objects the view can pass to addToSchedule
NumObjects == 4
\* number of addToSchedule calls between two constructions of the controller
MaxAdds == 4

\* A course object is a JavaScript object: ref is its identity, data its
\* contents.  Objects 2k-1 and 2k are two objects with the same contents.
CourseObjects == { [ref |-> i, data |-> (i + 1) \div 2] : i \in 1..NumObjects }

\* a === b on objects: the same object
StrictEquals(a, b) == a.ref = b.ref

\* a plausible slip: the search starts at the second element
indexOfFromSecond(arr, x) ==
    LET hits == {i \in DOMAIN arr : i > 1 /\ StrictEquals(arr[i], x)}
    IN  IF hits = {} THEN 0 - 1
        ELSE (CHOOSE i \in hits : \A j \in hits : i <= j) - 1

\* Array.prototype.indexOf: the first 0-based index whose element === x, or -1
indexOf(arr, x) ==
    LET hits == {i \in DOMAIN arr : StrictEquals(arr[i], x)}
    IN  IF hits = {} THEN 0 - 1
        ELSE (CHOOSE i \in hits : \A j \in hits : i <= j) - 1

\* lines 308-309, run at every construction of the controller
SchedInit ==
    /\ addedCourses = <<>>
    /\ shoppingCartSize = 0
    /\ addLog = <<>>

\* a plausible slip: only the list is reset, the tally is kept
SchedConstructListOnly ==
    /\ addLog # <<>>
    /\ addedCourses' = <<>>
    /\ addLog' = <<>>
    /\ UNCHANGED <<shoppingCartSize, alerts, fastVars, accLoadVars, sortVars, detailVars,
                   debVars>>

\* the controller is constructed again (the view is re-entered): lines 308-309
SchedConstruct ==
    /\ addLog # <<>>
    /\ addedCourses' = <<>>
    /\ shoppingCartSize' = 0
    /\ addLog' = <<>>
    /\ UNCHANGED <<alerts, fastVars, accLoadVars, sortVars, detailVars, debVars>>

\* a plausible slip: no membership test
addToScheduleNoCheck(course) ==
    /\ Len(addLog) < MaxAdds
    /\ addLog' = Append(addLog, course)
    /\ addedCourses' = push(addedCourses, course)
    /\ shoppingCartSize' = shoppingCartSize + 1
    /\ UNCHANGED <<alerts, fastVars, accLoadVars, sortVars, detailVars, debVars>>

\* $scope.addToSchedule, lines 313-321
addToSchedule(course) ==
    /\ Len(addLog) < MaxAdds
    /\ addLog' = Append(addLog, course)
    /\ IF indexOf(addedCourses, course) = 0 - 1
       THEN /\ addedCourses' = push(addedCourses, course)
            /\ shoppingCartSize' = shoppingCartSize + 1
       ELSE UNCHANGED <<addedCourses, shoppingCartSize>>
    /\ UNCHANGED <<alerts, fastVars, accLoadVars, sortVars, detailVars, debVars>>

SchedNext ==
    \/ \E course \in CourseObjects : addToSchedule(course)
    \/ SchedConstruct

(***************************************************************************)
(* The searchBox watchers (lines 69-80 and 281-301) and $timeout           *)
(*                                                                         *)
(* A $timeout callback runs when its delay has elapsed: the clock does not *)
(* pass the due time of a pending callback.  The clock advances in steps   *)
(* of 100 ms, and every input change happens at such an instant.           *)
(***************************************************************************)
\* the last instant of a run, in ms
MaxTime == 1200
\* number of searchBox changes the user makes in a run, both views together
MaxChanges == 3

\* the delays of lines 79, 300 and 283, in ms
FastDelay == 500
AccDelay == 200
ResetDelay == 1000

\* JavaScript values of searchBox and filterText: undefined, or a string
\* (its characters)
Undefined == <<"undefined", <<>> >>
Str(chars) == <<"string", chars>>

\* lines 329-331
isString(val) == val[1] = "string"

\* String.prototype.toUpperCase, on the characters the inputs use
UpperChar(ch) ==
    CASE ch = "c" -> "C"
      [] ch = "s" -> "S"
      [] OTHER -> ch
toUpperCase(val) == Str([i \in DOMAIN val[2] |-> UpperChar(val[2][i])])

\* what the user may leave in the search box; an emptied or invalid input
\* makes the ng-model undefined
InputValues == { Undefined, Str(<<"c", "s">>), Str(<<"C", "s">>) }

\* $timeout(fn, delay): a new pending callback; born is the number of the
\* listener call that scheduled it, val the value its closure captured
NewTimer(owner, delay, val, born) ==
    [id |-> nextTimer, due |-> now + delay, owner |-> owner, val |-> val, born |-> born]

\* $timeout.cancel(promise): the callback of that promise, if still pending,
\* will not run
Cancel(ts, promise) == {t \in ts : t.id # promise}

\* Construction of both controllers: lines 69-71 and 281-289.  No digest has
\* run yet, so no listener was called.
DebInit ==
    /\ now = 0
    /\ timers = { [id |-> 1, due |-> ResetDelay, owner |-> "reset", val |-> Undefined,
                   born |-> 0] }
    /\ nextTimer = 2
    /\ fSearchBox = Undefined
    /\ tempFilterText = Str(<<>>)
    /\ fFilterTextTimeout = 0
    /\ fFilterText = Str(<<>>)
    /\ fWatchLog = <<>>
    /\ fPubLog = <<>>
    /\ aSearchBox = Undefined
    /\ aFilterTextTimeout = 0
    /\ aFilterText = Undefined
    /\ aWatchLog = <<>>
    /\ aPubLog = <<>>

\* searchBox changes made by the user so far (each listener's first call is
\* made by the first digest, not by a change)
UserChanges ==
    (IF fWatchLog = <<>> THEN 0 ELSE Len(fWatchLog) - 1)
      + (IF aWatchLog = <<>> THEN 0 ELSE Len(aWatchLog) - 1)

\* a plausible slip: the pending callback is not cancelled
FastListenerNoCancel(val) ==
    /\ tempFilterText' = val
    /\ fWatchLog' = Append(fWatchLog, <<now, val>>)
    /\ timers' = timers \cup {NewTimer("fast", FastDelay, Undefined, Len(fWatchLog) + 1)}
    /\ fFilterTextTimeout' = nextTimer
    /\ nextTimer' = nextTimer + 1

\* fastCourseListCtrl: the listener of line 72, lines 73-79
FastListener(val) ==
    /\ tempFilterText' = val
    /\ fWatchLog' = Append(fWatchLog, <<now, val>>)
    /\ timers' = (IF fFilterTextTimeout # 0 THEN Cancel(timers, fFilterTextTimeout)
                  ELSE timers)
                 \cup {NewTimer("fast", FastDelay, Undefined, Len(fWatchLog) + 1)}
    /\ fFilterTextTimeout' = nextTimer
    /\ nextTimer' = nextTimer + 1

\* the first digest calls the listener with the current value of searchBox
FastFirstDigest ==
    /\ fWatchLog = <<>>
    /\ FastListener(fSearchBox)
    /\ UNCHANGED <<now, fSearchBox, fFilterText, fPubLog, accDebVars>>
    /\ UNCHANGED <<alerts, fastVars, accLoadVars, sortVars, detailVars, schedVars>>

\* the user changes the search box of the fast course list
FastSearchBoxChange(val) ==
    /\ fWatchLog # <<>>
    /\ UserChanges < MaxChanges
    /\ val # fSearchBox
    /\ fSearchBox' = val
    /\ FastListener(val)
    /\ UNCHANGED <<now, fFilterText, fPubLog, accDebVars>>
    /\ UNCHANGED <<alerts, fastVars, accLoadVars, sortVars, detailVars, schedVars>>

\* a plausible slip: the callback writes tempFilterText back to itself, never
\* $scope.filterText
FastPublishNowhere ==
    \E t \in timers :
        /\ t.owner = "fast"
        /\ t.due = now
        /\ timers' = timers \ {t}
        /\ fPubLog' = Append(fPubLog, [time |-> now, val |-> tempFilterText,
                                       born |-> t.born, seen |-> Len(fWatchLog)])
        /\ UNCHANGED <<now, nextTimer, fSearchBox, tempFilterText, fFilterTextTimeout,
                       fFilterText, fWatchLog, accDebVars>>
        /\ UNCHANGED <<alerts, fastVars, accLoadVars, sortVars, detailVars, schedVars>>

\* the callback of line 77 runs: line 78
FastPublish ==
    \E t \in timers :
        /\ t.owner = "fast"
        /\ t.due = now
        /\ timers' = timers \ {t}
        /\ fFilterText' = tempFilterText
        /\ fPubLog' = Append(fPubLog, [time |-> now, val |-> tempFilterText,
                                       born |-> t.born, seen |-> Len(fWatchLog)])
        /\ UNCHANGED <<now, nextTimer, fSearchBox, tempFilterText, fFilterTextTimeout,
                       fWatchLog, accDebVars>>
        /\ UNCHANGED <<alerts, fastVars, accLoadVars, sortVars, detailVars, schedVars>>

\* a plausible slip: the pending callback is not cancelled
AccListenerNoCancel(val) ==
    /\ aWatchLog' = Append(aWatchLog, <<now, val>>)
    /\ IF ~isString(val)
       THEN UNCHANGED <<timers, aFilterTextTimeout, nextTimer>>
       ELSE /\ timers' = timers \cup {NewTimer("accordion", AccDelay, val, Len(aWatchLog) + 1)}
            /\ aFilterTextTimeout' = nextTimer
            /\ nextTimer' = nextTimer + 1

\* accordionCtrl: the listener of line 290, lines 291-300
AccListener(val) ==
    /\ aWatchLog' = Append(aWatchLog, <<now, val>>)
    /\ IF ~isString(val)
       THEN UNCHANGED <<timers, aFilterTextTimeout, nextTimer>>
       ELSE /\ timers' = (IF aFilterTextTimeout # 0 THEN Cancel(timers, aFilterTextTimeout)
                          ELSE timers)
                         \cup {NewTimer("accordion", AccDelay, val, Len(aWatchLog) + 1)}
            /\ aFilterTextTimeout' = nextTimer
            /\ nextTimer' = nextTimer + 1

\* the first digest calls the listener with the current value of searchBox
AccFirstDigest ==
    /\ aWatchLog = <<>>
    /\ AccListener(aSearchBox)
    /\ UNCHANGED <<now, aSearchBox, aFilterText, aPubLog, fastDebVars>>
    /\ UNCHANGED <<alerts, fastVars, accLoadVars, sortVars, detailVars, schedVars>>

\* the user changes the search box of the accordion
AccSearchBoxChange(val) ==
    /\ aWatchLog # <<>>
    /\ UserChanges < MaxChanges
    /\ val # aSearchBox
    /\ aSearchBox' = val
    /\ AccListener(val)
    /\ UNCHANGED <<now, aFilterText, aPubLog, fastDebVars>>
    /\ UNCHANGED <<alerts, fastVars, accLoadVars, sortVars, detailVars, schedVars>>

\* a plausible slip: the value is published as typed, not in upper case
AccPublishAsTyped ==
    \E t \in timers :
        /\ t.owner = "accordion"
        /\ t.due = now
        /\ timers' = timers \ {t}
        /\ aFilterText' = t.val
        /\ aPubLog' = Append(aPubLog, [time |-> now, val |-> t.val,
                                       born |-> t.born, seen |-> Len(aWatchLog)])
        /\ UNCHANGED <<now, nextTimer, aSearchBox, aFilterTextTimeout, aWatchLog,
                       fastDebVars>>
        /\ UNCHANGED <<alerts, fastVars, accLoadVars, sortVars, detailVars, schedVars>>

\* the callback of line 298 runs: line 299, on the val its closure captured
AccPublish ==
    \E t \in timers :
        /\ t.owner = "accordion"
        /\ t.due = now
        /\ timers' = timers \ {t}
        /\ aFilterText' = toUpperCase(t.val)
        /\ aPubLog' = Append(aPubLog, [time |-> now, val |-> toUpperCase(t.val),
                                       born |-> t.born, seen |-> Len(aWatchLog)])
        /\ UNCHANGED <<now, nextTimer, aSearchBox, aFilterTextTimeout, aWatchLog,
                       fastDebVars>>
        /\ UNCHANGED <<alerts, fastVars, accLoadVars, sortVars, detailVars, schedVars>>

\* the callback of line 281 runs: line 282
AccReset ==
    \E t \in timers :
        /\ t.owner = "reset"
        /\ t.due = now
        /\ timers' = timers \ {t}
        /\ aFilterText' = Str(<<>>)
        /\ UNCHANGED <<now, nextTimer, aSearchBox, aFilterTextTimeout, aWatchLog, aPubLog,
                       fastDebVars>>
        /\ UNCHANGED <<alerts, fastVars, accLoadVars, sortVars, detailVars, schedVars>>

\* 100 ms pass; the first digest follows construction at once, and a callback
\* that is due runs before the clock moves on
Tick ==
    /\ fWatchLog # <<>>
    /\ aWatchLog # <<>>
    /\ \A t \in timers : t.due # now
    /\ now + 100 <= MaxTime
    /\ now' = now + 100
    /\ UNCHANGED <<timers, nextTimer, fastDebVars, accDebVars>>
    /\ UNCHANGED <<alerts, fastVars, accLoadVars, sortVars, detailVars, schedVars>>

DebNext ==
    \/ FastFirstDigest
    \/ \E val \in InputValues : FastSearchBoxChange(val)
    \/ FastPublish
    \/ AccFirstDigest
    \/ \E val \in InputValues : AccSearchBoxChange(val)
    \/ AccPublish
    \/ AccReset
    \/ Tick

(***************************************************************************)
(* compareByCourseNumber, lines 225-238.  A display string is the sequence *)
(* of its characters.                                                      *)
(***************************************************************************)
\* longest digit run of the display strings compared
MaxDigits == 2

Digits == {"0", "1", "2"}

\* the digits by character code ("0" < "1" < "2"), which is also their value
DigitValue(ch) ==
    CASE ch = "0" -> 0
      [] ch = "1" -> 1
      [] ch = "2" -> 2

DigitRuns == UNION { [1..n -> Digits] : n \in 1..MaxDigits }

\* what may follow the course number in a display string
Suffixes == { <<>>, <<"x", "1">> }

\* a display string: subject letter, blank, course number, the rest
Display(run, suffix) == <<"C", " ">> \o run \o suffix

\* the display strings compared: every course number with every suffix, and
\* one string without a digit
DisplayStrings ==
    { Display(run, suffix) : run \in DigitRuns, suffix \in Suffixes } \cup { <<"C">> }

\* the value null
Null == <<>>

\* str.match(/\d+/): the array holding the first, longest run of digits of
\* str, or null when str has no digit
match(str) ==
    LET digitAt == {i \in DOMAIN str : str[i] \in Digits}
    IN  IF digitAt = {} THEN Null
        ELSE LET first == CHOOSE i \in digitAt : \A j \in digitAt : i <= j
                 last == CHOOSE k \in first..Len(str) :
                            /\ \A i \in first..k : str[i] \in Digits
                            /\ (k = Len(str) \/ str[k + 1] \notin Digits)
             IN  << SubSeq(str, first, last) >>

\* x < y on two strings of digits: by character code, position by position; a
\* proper prefix comes first
RECURSIVE StringLess(_, _)
StringLess(x, y) ==
    IF y = <<>> THEN FALSE
    ELSE IF x = <<>> THEN TRUE
    ELSE IF Head(x) = Head(y) THEN StringLess(Tail(x), Tail(y))
    ELSE DigitValue(Head(x)) < DigitValue(Head(y))

\* ToNumber of a string of digits
RECURSIVE ToNumber(_)
ToNumber(x) ==
    IF x = <<>> THEN 0
    ELSE 10 * ToNumber(SubSeq(x, 1, Len(x) - 1)) + DigitValue(x[Len(x)])

\* x < y on two results of match.  An array becomes the string of its one
\* element; two strings compare as strings; null is the number 0 and makes
\* the comparison one of numbers.
Less(x, y) ==
    IF x # Null /\ y # Null THEN StringLess(x[1], y[1])
    ELSE (IF x = Null THEN 0 ELSE ToNumber(x[1])) < (IF y = Null THEN 0 ELSE ToNumber(y[1]))

\* a plausible slip (or a well-meant repair): the course numbers compare as numbers
compareByCourseNumberNumeric(a, b) ==
    LET aNum == match(a.asString)
        bNum == match(b.asString)
        n(x) == IF x = Null THEN 0 ELSE ToNumber(x[1])
    IN  IF n(aNum) < n(bNum) THEN 0 - 1
        ELSE IF n(aNum) > n(bNum) THEN 1
        ELSE 0

\* compareByCourseNumber, lines 225-238
compareByCourseNumber(a, b) ==
    LET aNum == match(a.asString)
        bNum == match(b.asString)
    IN  IF Less(aNum, bNum) THEN 0 - 1
        ELSE IF Less(bNum, aNum) THEN 1
        ELSE 0

\* [a, b].sort(compareByCourseNumber): b comes first when a compares greater
SortPair(a, b) ==
    IF compareByCourseNumber(a, b) > 0 THEN <<b, a>> ELSE <<a, b>>

\* two courses to compare, not compared yet
SortInit(strings) ==
    /\ cmpA \in strings
    /\ cmpB \in strings
    /\ cmpResult = <<>>
    /\ cmpSorted = <<>>

\* the two courses are compared and sorted
Compare ==
    /\ cmpResult = <<>>
    /\ cmpResult' = << compareByCourseNumber([asString |-> cmpA], [asString |-> cmpB]) >>
    /\ cmpSorted' = SortPair([asString |-> cmpA], [asString |-> cmpB])
    /\ UNCHANGED <<cmpA, cmpB, alerts, fastVars, accLoadVars, detailVars, schedVars, debVars>>

SortNext == Compare

(***************************************************************************)
(* Specifications.  Each one runs one part of the program from its         *)
(* construction; the other parts stay as constructed, with nothing to load.*)
(***************************************************************************)
\* fastCourseListCtrl loading the catalog
Init ==
    /\ FastInit(Catalogs) /\ alerts = 0
    /\ AccLoadInit({EmptyAccPage}) /\ DetailInit /\ SchedInit /\ DebInit
    /\ SortInit({<<"C">>})
Next == FastNext
Spec == Init /\ [][Next]_vars

\* accordionCtrl loading the structured catalog
AccLoadSpecInit ==
    /\ AccLoadInit(AccPages) /\ alerts = 0
    /\ FastInit({EmptyCatalog}) /\ DetailInit /\ SchedInit /\ DebInit
    /\ SortInit({<<"C">>})
AccLoadSpec == AccLoadSpecInit /\ [][AccLoadNext]_vars

\* the parts that start from one state
PlainInit ==
    /\ FastInit({EmptyCatalog}) /\ alerts = 0
    /\ AccLoadInit({EmptyAccPage}) /\ DetailInit /\ SchedInit /\ DebInit
    /\ SortInit({<<"C">>})

\* accordionCtrl loading course details
DetailSpec == PlainInit /\ [][DetailNext]_vars

\* accordionCtrl's schedule list
SchedSpec == PlainInit /\ [][SchedNext]_vars

\* the two searchBox watchers
DebSpec == PlainInit /\ [][DebNext]_vars

\* fastCourseListCtrl's watcher with its timers running: a due callback is
\* run and the clock moves on (weak fairness of the callbacks, the first
\* digests and the clock); the user is free to stop typing, and types early
\* enough for the delay to elapse before the last instant of the run
FastSearchBoxChangeInTime(val) ==
    /\ now + FastDelay <= MaxTime
    /\ FastSearchBoxChange(val)

DebFairNext ==
    \/ FastFirstDigest
    \/ \E val \in InputValues : FastSearchBoxChangeInTime(val)
    \/ FastPublish
    \/ AccFirstDigest
    \/ AccReset
    \/ Tick

DebFairSpec ==
    /\ PlainInit
    /\ [][DebFairNext]_vars
    /\ WF_vars(FastFirstDigest)
    /\ WF_vars(AccFirstDigest)
    /\ WF_vars(FastPublish)
    /\ WF_vars(AccReset)
    /\ WF_vars(Tick)

\* compareByCourseNumber on every pair of display strings
SortSpecInit ==
    /\ SortInit(DisplayStrings) /\ alerts = 0
    /\ FastInit({EmptyCatalog}) /\ AccLoadInit({EmptyAccPage})
    /\ DetailInit /\ SchedInit /\ DebInit
SortSpec == SortSpecInit /\ [][SortNext]_vars

(***************************************************************************)
(* Properties of fastCourseListCtrl's aggregation                          *)
(***************************************************************************)
\* the page the server lists course c on
PageOf(c) == CHOOSE p \in DOMAIN srvPages : c \in Range(srvPages[p])

\* how often display string str stands in subjectBin[f][s] (0 without that key)
Occurrences(f, s, str) ==
    IF hasOwnProperty(subjectBin, f) /\ hasOwnProperty(subjectBin[f], s)
    THEN Count(subjectBin[f][s], str)
    ELSE 0

\* subjectBin holds nothing but display strings of the catalog, under keys of the catalog
OnlyCatalogEntries ==
    /\ DOMAIN subjectBin \subseteq Faculties
    /\ \A f \in DOMAIN subjectBin :
         /\ DOMAIN subjectBin[f] \subseteq Subjects
         /\ \A s \in DOMAIN subjectBin[f] :
              Range(subjectBin[f][s]) \subseteq {c.asString : c \in Courses}

\* every request issued has been answered, and answered successfully
AllPagesOk ==
    /\ firstReq = "ok"
    /\ \A p \in 1..MaxPages : pageReq[p] \in {"none", "ok"}

\* every request issued has been answered, successfully or not
AllPagesHandled ==
    /\ firstReq = "ok"
    /\ \A p \in 1..MaxPages : pageReq[p] \in {"none", "ok", "failed"}

\* C1: whatever pages the course records are on and in whatever order the
\* responses arrive, once every issued fetch has succeeded each course's
\* display string stands exactly once in subjectBin, under its own faculty
\* and subject, and nowhere else.
C1_EachCourseOnce ==
    AllPagesOk =>
        /\ OnlyCatalogEntries
        /\ \A c \in Courses, f \in Faculties, s \in Subjects :
             Occurrences(f, s, c.asString)
               = (IF f = c.faculty /\ s = c.subject THEN 1 ELSE 0)

\* C1 witness: three pages all merged, the first response handled is not page 1's,
\* and two courses of one subject came on different pages
C1_Witness ==
    /\ AllPagesOk
    /\ Len(srvPages) = 3
    /\ delivered[1][1] # 1
    /\ \E c, d \in Courses :
         /\ c # d /\ c.faculty = d.faculty /\ c.subject = d.subject
         /\ PageOf(c) # PageOf(d)

\* C9: with the first request answered, once every page request is answered
\* and at least one has failed, one alert was raised per failure and
\* subjectBin holds exactly the courses of the pages that succeeded, each
\* once, under its own faculty and subject.
C9_FailedPageLeavesOthers ==
    (AllPagesHandled /\ \E p \in 1..MaxPages : pageReq[p] = "failed") =>
        /\ alerts = Cardinality({p \in 1..MaxPages : pageReq[p] = "failed"})
        /\ OnlyCatalogEntries
        /\ \A c \in Courses, f \in Faculties, s \in Subjects :
             Occurrences(f, s, c.asString)
               = (IF f = c.faculty /\ s = c.subject /\ pageReq[PageOf(c)] = "ok"
                  THEN 1 ELSE 0)

\* C9 witness: a page with courses failed, and a page with courses was merged after it
C9_Witness ==
    /\ AllPagesHandled
    /\ \E i, j \in DOMAIN delivered :
         /\ i < j
         /\ delivered[i][2] = "failed" /\ srvPages[delivered[i][1]] # <<>>
         /\ delivered[j][2] = "ok" /\ srvPages[delivered[j][1]] # <<>>

(***************************************************************************)
(* Properties of loadMore                                                  *)
(***************************************************************************)
\* a successful response for id was handled before position i of the log
OkBefore(id, i) == \E k \in 1..(i - 1) : detailLog[k] = <<"ok", id>>

\* the calls loadMore(id) made while no successful response for id had been handled
UncachedCalls(id) ==
    {i \in DOMAIN detailLog : detailLog[i] = <<"call", id>> /\ ~OkBefore(id, i)}

\* the step is a call loadMore(id)
IsLoadMoreStep(id) ==
    /\ Len(detailLog') > Len(detailLog)
    /\ detailLog'[Len(detailLog) + 1] = <<"call", id>>

\* C2 as claimed: two calls loadMore(id), none of whose requests failed, issue
\* exactly one detail request, wherever the first response falls.
C2_TwoCallsOneRequest ==
    \A id \in CourseIds :
        (LogCount(detailLog, <<"call", id>>) = 2 /\ LogCount(detailLog, <<"fail", id>>) = 0)
            => LogCount(detailLog, <<"get", id>>) = 1

\* C2 amended: a call loadMore(id) issues a detail request exactly when no
\* successful response for id has been handled before it; so two calls issue
\* one request when the first response succeeded before the second call, and
\* two when the first request is still in flight then.
C2_RequestsByDelivery ==
    \A id \in CourseIds :
        /\ LogCount(detailLog, <<"get", id>>) = Cardinality(UncachedCalls(id))
        /\ \A i \in UncachedCalls(id) : i < Len(detailLog) /\ detailLog[i + 1] = <<"get", id>>

\* C2 witness: an id was called twice, the second call after the successful
\* response to the first, with one request in all
C2_Witness ==
    \E id \in CourseIds :
        detailLog = << <<"call", id>>, <<"get", id>>, <<"ok", id>>, <<"call", id>> >>

\* C3: a call loadMore(id) with id already a key of $scope.description issues
\* no request and changes nothing (but the record that the call was made).
C3_CachedCallChangesNothing ==
    [][ \A id \in CourseIds :
          (IsLoadMoreStep(id) /\ hasOwnProperty(description, id)) =>
              /\ detailLog' = Append(detailLog, <<"call", id>>)
              /\ UNCHANGED <<description, detailPending, alerts, fastVars, accLoadVars, sortVars,
                             schedVars, debVars>> ]_vars

\* C3 witness: loadMore(id) was just called with id in the cache
C3_Witness ==
    \E id \in CourseIds :
        /\ hasOwnProperty(description, id)
        /\ detailLog # <<>>
        /\ detailLog[Len(detailLog)] = <<"call", id>>

\* C4: every failed detail request raised one alert; an id is a key of
\* $scope.description only through a successful response, which stores the
\* description the server sent; and a call loadMore(id) made after a failure,
\* with no success for id so far, issues a new request.
C4_FailureAlertsAndRetry ==
    /\ alerts = Cardinality({i \in DOMAIN detailLog : detailLog[i][1] = "fail"})
    /\ \A id \in CourseIds :
         /\ hasOwnProperty(description, id) <=> LogCount(detailLog, <<"ok", id>>) > 0
         /\ hasOwnProperty(description, id) =>
                description[id] = Details(id).courseDescription
         /\ \A i, j \in DOMAIN detailLog :
                (i < j /\ detailLog[i] = <<"fail", id>> /\ detailLog[j] = <<"call", id>>
                   /\ ~OkBefore(id, j))
                => (j < Len(detailLog) /\ detailLog[j + 1] = <<"get", id>>)

\* C4 witness: the only request for id failed, a later call issued a new one,
\* and its success stored the description
C4_Witness ==
    \E id \in CourseIds :
        /\ detailLog = << <<"call", id>>, <<"get", id>>, <<"fail", id>>,
                          <<"call", id>>, <<"get", id>>, <<"ok", id>> >>
        /\ alerts = 1
        /\ description[id] = Details(id).courseDescription

(***************************************************************************)
(* Properties of addToSchedule                                             *)
(***************************************************************************)
\* C5: a call addToSchedule(course) with a course (object) already in
\* addedCourses leaves addedCourses and shoppingCartSize unchanged; from the
\* empty list, two calls with the same course leave length 1 and size 1.
C5_AddIsIdempotent ==
    [][ Len(addLog') = Len(addLog) + 1 =>
          LET course == addLog'[Len(addLog')] IN
            /\ (\E i \in DOMAIN addedCourses : StrictEquals(addedCourses[i], course))
                  => UNCHANGED <<addedCourses, shoppingCartSize>>
            /\ addLog' = <<course, course>>
                  => (addedCourses' = <<course>> /\ shoppingCartSize' = 1) ]_vars

\* C5 witness: the same course was added twice to the empty list
C5_Witness ==
    \E course \in CourseObjects :
        /\ addLog = <<course, course>>
        /\ Len(addedCourses) = 1

\* C6 as claimed: no two entries of addedCourses have the same contents.
C6_NoValueDuplicates ==
    \A i, j \in DOMAIN addedCourses :
        i # j => addedCourses[i].data # addedCourses[j].data

\* C6 amended: no two entries of addedCourses are the same object (===);
\* two distinct objects with the same contents may both be entries.
C6_NoIdentityDuplicates ==
    \A i, j \in DOMAIN addedCourses :
        i # j => ~StrictEquals(addedCourses[i], addedCourses[j])

\* C6 witness: an object was passed twice, and two distinct objects with the
\* same contents are both in the list
C6_Witness ==
    /\ \E i, j \in DOMAIN addLog : i # j /\ addLog[i] = addLog[j]
    /\ \E i, j \in DOMAIN addedCourses :
         /\ i # j
         /\ addedCourses[i].data = addedCourses[j].data
         /\ ~StrictEquals(addedCourses[i], addedCourses[j])

(***************************************************************************)
(* Properties of the searchBox watchers                                    *)
(***************************************************************************)
\* the number of the last listener call among the first n whose val is a string
\* (0 when there is none)
LastStringCall(log, n) ==
    LET strs == {i \in 1..n : isString(log[i][2])}
    IN  IF strs = {} THEN 0 ELSE CHOOSE i \in strs : \A j \in strs : j <= i

\* C7: in fastCourseListCtrl every write of filterText by the timer is made
\* FastDelay after the last searchBox change before it, with that change's
\* value, and at most once per change; with changes at 0 ms and 100 ms and
\* none up to 600 ms after them, the only write up to 600 ms is the one at
\* 600 ms, of the value from 100 ms.
C7_OnlyLastValuePublished ==
    /\ \A k \in DOMAIN fPubLog :
         LET e == fPubLog[k] IN
           /\ e.born = e.seen
           /\ e.time = fWatchLog[e.seen][1] + FastDelay
           /\ e.val = fWatchLog[e.seen][2]
    /\ \A k, l \in DOMAIN fPubLog : k # l => fPubLog[k].born # fPubLog[l].born
    /\ \A i \in DOMAIN fWatchLog :
         ( /\ i + 1 \in DOMAIN fWatchLog
           /\ fWatchLog[i][1] = 0
           /\ fWatchLog[i + 1][1] = 100
           /\ (i + 2 \in DOMAIN fWatchLog => fWatchLog[i + 2][1] > 600)
           /\ now > 600 )
         => /\ \A k \in DOMAIN fPubLog : fPubLog[k].time # 500
            /\ \E k \in DOMAIN fPubLog :
                 /\ fPubLog[k].time = 600
                 /\ fPubLog[k].val = fWatchLog[i + 1][2]
                 /\ \A l \in DOMAIN fPubLog : fPubLog[l].time <= 600 => l = k

\* C7 witness: the user changed searchBox at 0 ms and at 100 ms, to two
\* different strings, and 600 ms have passed with filterText written once
C7_Witness ==
    /\ now > 600
    /\ Len(fWatchLog) = 3
    /\ fWatchLog[2][1] = 0 /\ isString(fWatchLog[2][2])
    /\ fWatchLog[3][1] = 100 /\ isString(fWatchLog[3][2])
    /\ Len(fPubLog) = 1
    /\ fFilterText = fWatchLog[3][2]

\* C8 as claimed: in both controllers the callback that writes filterText was
\* scheduled by the most recent searchBox change, whatever its value.
C8_EveryChangeCancels ==
    /\ \A k \in DOMAIN fPubLog : fPubLog[k].born = fPubLog[k].seen
    /\ \A k \in DOMAIN aPubLog : aPubLog[k].born = aPubLog[k].seen

\* C8 amended: in fastCourseListCtrl the callback that writes filterText was
\* scheduled by the most recent searchBox change; in accordionCtrl by the
\* most recent change to a string (a change to a non-string value cancels
\* nothing).
C8_StringChangesCancel ==
    /\ \A k \in DOMAIN fPubLog : fPubLog[k].born = fPubLog[k].seen
    /\ \A k \in DOMAIN aPubLog :
         aPubLog[k].born = LastStringCall(aWatchLog, aPubLog[k].seen)

\* C8 witness: accordionCtrl published after a change to a string cancelled the
\* callback of an earlier string, and fastCourseListCtrl published after a change
C8_Witness ==
    /\ \E k \in DOMAIN aPubLog :
         /\ aPubLog[k].born = aPubLog[k].seen
         /\ \E i \in 2..(aPubLog[k].born - 1) : isString(aWatchLog[i][2])
    /\ \E k \in DOMAIN fPubLog : fPubLog[k].seen >= 2

(***************************************************************************)
(* Properties of accordionCtrl's page load                                 *)
(***************************************************************************)
\* C10 as claimed: when the request for the catalog page has failed, an alert
\* has been raised.
C10_AccFailureAlerts ==
    accReq = "failed" => alerts > 0

\* the subjects of the groups of faculty f among objects, in their order
SubjectsOf(f, objects) ==
    LET RECURSIVE cat(_)
        cat(i) == IF i = 0 THEN <<>>
                  ELSE cat(i - 1) \o (IF objects[i].faculty = f THEN objects[i].subjects
                                      ELSE <<>>)
    IN  cat(Len(objects))

\* C11 as claimed: after the page is parsed the callback has completed
\* normally and, for every faculty named on the page, $scope.subjectBin has
\* exactly one entry, whose subjects are those of all the page's groups of
\* that faculty, in page order.
C11_DuplicateFacultyMerged ==
    accReq = "ok" =>
        /\ ~accThrown
        /\ \A g \in Range(accPage.objects) :
             /\ Cardinality({i \in DOMAIN accSubjectBin :
                               accSubjectBin[i].faculty = g.faculty}) = 1
             /\ \A i \in DOMAIN accSubjectBin :
                  accSubjectBin[i].faculty = g.faculty =>
                      accSubjectBin[i].subjects = SubjectsOf(g.faculty, accPage.objects)

\* C12 as claimed: once page 1 has resolved with total_pages = N, pages 2..N
\* have been requested.
C12_AllPagesRequested ==
    accReq = "ok" => \A p \in 2..accPage.total_pages : accGets[p] >= 1

(***************************************************************************)
(* Properties of fastCourseListCtrl's requests                             *)
(***************************************************************************)
\* C13 as claimed: once total_pages is known, every page 1..total_pages has
\* been requested with exactly one GET.
C13_OneGetPerPage ==
    firstReq = "ok" => \A p \in 1..total_pages : gets[p] = 1

\* C13 amended: once total_pages is known, page 1 has been requested twice
\* (line 18 to read total_pages, line 26 to merge it), every page
\* 2..total_pages once, and no other page.
C13_PageOneTwice ==
    firstReq = "ok" =>
        \A p \in 1..MaxPages :
            gets[p] = (IF p = 1 THEN 2 ELSE IF p <= total_pages THEN 1 ELSE 0)

\* C13 witness: a catalog of three pages, all requested
C13_Witness ==
    /\ firstReq = "ok"
    /\ total_pages = 3
    /\ gets[1] = 2 /\ gets[2] = 1 /\ gets[3] = 1

\* C14: while the first request is unanswered, and for good once it has
\* failed, only its own GET of page 1 has been issued and subjectBin is
\* empty; a page >= 2 is requested only with the first response delivered
\* and its total_pages read.
C14_NothingBeforeFirstPage ==
    /\ firstReq \in {"inflight", "failed"} =>
         /\ gets = [p \in 1..MaxPages |-> IF p = 1 THEN 1 ELSE 0]
         /\ \A p \in 1..MaxPages : pageReq[p] = "none"
         /\ subjectBin = EmptyObject
    /\ firstReq = "failed" => alerts = 1
    /\ \A p \in 2..MaxPages :
         gets[p] > 0 => (firstReq = "ok" /\ total_pages = Len(srvPages) /\ p <= total_pages)

\* C14 witness: the first request failed although the catalog has further pages
\* with courses
C14_Witness ==
    /\ firstReq = "failed"
    /\ Len(srvPages) >= 2
    /\ \E p \in 2..Len(srvPages) : srvPages[p] # <<>>

\* the display strings of the courses of faculty f and subject s among objects,
\* in their order
StringsOf(f, s, objects) ==
    LET RECURSIVE cat(_)
        cat(i) == IF i = 0 THEN <<>>
                  ELSE cat(i - 1) \o (IF objects[i].faculty = f /\ objects[i].subject = s
                                      THEN <<objects[i].asString>> ELSE <<>>)
    IN  cat(Len(objects))

\* the merged pages' display strings for (f, s), page after page in the order
\* the responses arrived
InArrivalOrder(f, s) ==
    LET RECURSIVE cat(_)
        cat(i) == IF i = 0 THEN <<>>
                  ELSE cat(i - 1) \o (IF delivered[i][2] = "ok"
                                      THEN StringsOf(f, s, srvPages[delivered[i][1]])
                                      ELSE <<>>)
    IN  cat(Len(delivered))

\* C15: in every state subjectBin[f][s] is the concatenation, in arrival
\* order of the responses, of the merged pages' display strings for (f, s),
\* each page in its own order; the keys f and s exist exactly when that
\* sequence is not empty.
C15_ArrivalOrder ==
    /\ OnlyCatalogEntries
    /\ \A f \in DOMAIN subjectBin : DOMAIN subjectBin[f] # {}
    /\ \A f \in Faculties, s \in Subjects :
         IF InArrivalOrder(f, s) = <<>>
         THEN ~(hasOwnProperty(subjectBin, f) /\ hasOwnProperty(subjectBin[f], s))
         ELSE /\ hasOwnProperty(subjectBin, f)
              /\ hasOwnProperty(subjectBin[f], s)
              /\ subjectBin[f][s] = InArrivalOrder(f, s)

\* C15 witness: a later page was merged before an earlier one, each with a
\* course of the same subject, so its course stands first
C15_Witness ==
    /\ AllPagesOk
    /\ \E i, j \in DOMAIN delivered, c, d \in Courses :
         /\ i < j /\ delivered[i][1] > delivered[j][1]
         /\ c # d /\ c.faculty = d.faculty /\ c.subject = d.subject
         /\ PageOf(c) = delivered[i][1] /\ PageOf(d) = delivered[j][1]
         /\ subjectBin[c.faculty][c.subject] = <<c.asString, d.asString>>

(***************************************************************************)
(* Further properties of the searchBox watchers                            *)
(***************************************************************************)
\* fastCourseListCtrl's debouncer is idle: the listener has run and no callback
\* of it is pending
FastIdle ==
    /\ fWatchLog # <<>>
    /\ \A t \in timers : t.owner # "fast"

\* C16: with timers running, once the searchBox changes have stopped the
\* debouncer of fastCourseListCtrl ends idle with filterText equal to the
\* last searchBox value, for good; and filterText changes only in a publish,
\* to the current searchBox value.
C16_EventuallyPublished ==
    /\ <>[](FastIdle /\ fFilterText = fSearchBox)
    /\ [][ fFilterText' # fFilterText =>
              /\ Len(fPubLog') = Len(fPubLog) + 1
              /\ fFilterText' = fSearchBox ]_vars

\* C16 witness: the user changed searchBox twice, the last time to a string; it
\* was published and the debouncer is idle again
C16_Witness ==
    /\ FastIdle
    /\ Len(fWatchLog) >= 3
    /\ isString(fSearchBox)
    /\ fFilterText = fSearchBox
    /\ fPubLog # <<>>
    /\ fPubLog[Len(fPubLog)].seen = Len(fWatchLog)

\* C17 as claimed: accordionCtrl's filterText is written only by the debounced
\* publish, with the upper-cased value of the last searchBox string.
C17_OnlyPublishWrites ==
    [][ aFilterText' # aFilterText =>
          /\ Len(aPubLog') = Len(aPubLog) + 1
          /\ aFilterText'
               = toUpperCase(aWatchLog[LastStringCall(aWatchLog, Len(aWatchLog))][2]) ]_vars

\* C17 amended: accordionCtrl's filterText is written by the debounced
\* publish, with the upper-cased value of the last searchBox string, and
\* once more by the callback of line 281, which sets it to the empty string
\* ResetDelay after construction, whatever was published before.
C17_PublishOrResetWrites ==
    [][ aFilterText' # aFilterText =>
          \/ /\ Len(aPubLog') = Len(aPubLog) + 1
             /\ aFilterText'
                  = toUpperCase(aWatchLog[LastStringCall(aWatchLog, Len(aWatchLog))][2])
          \/ /\ now = ResetDelay
             /\ aPubLog' = aPubLog
             /\ aFilterText' = Str(<<>>) ]_vars

\* C17 witness: a string was published before the 1000 ms callback ran, and
\* filterText is now the empty string although searchBox has not changed since
C17_Witness ==
    /\ now >= ResetDelay
    /\ aPubLog # <<>>
    /\ aPubLog[Len(aPubLog)].seen = Len(aWatchLog)
    /\ aPubLog[Len(aPubLog)].val # Str(<<>>)
    /\ aFilterText = Str(<<>>)

(***************************************************************************)
(* Further properties of addToSchedule                                     *)
(***************************************************************************)
\* C18: in every state shoppingCartSize is the number of entries of
\* addedCourses.
C18_SizeIsLength ==
    shoppingCartSize = Len(addedCourses)

\* C18 witness: several courses are in the list and a call found its course
\* already there
C18_Witness ==
    /\ Len(addedCourses) >= 2
    /\ Len(addLog) > Len(addedCourses)

(***************************************************************************)
(* Properties of compareByCourseNumber                                     *)
(***************************************************************************)
\* the course number of a display string with one: the run it was built from
RunOf(str) ==
    CHOOSE run \in DigitRuns : \E suffix \in Suffixes : str = Display(run, suffix)

\* x comes before y in the character-by-character order: at the first
\* position where they differ x has ended or has the smaller character
LexBefore(x, y) ==
    \E k \in 1..Len(y) :
        /\ \A i \in 1..(k - 1) : i <= Len(x) /\ x[i] = y[i]
        /\ k - 1 <= Len(x)
        /\ (k > Len(x) \/ DigitValue(x[k]) < DigitValue(y[k]))

====
